---- MODULE Spec2Model ----
(***************************************************************************)
(* Model of the fractal generators of 0xd2e/fractals:                      *)
(*   src/fractals/ifs.py   ifs, clifford_attractor                         *)
(*   src/fractals/lsys.py  calc_rot_matrix, generate_pattern,              *)
(*                         generate_points, lindemayer                     *)
(*                                                                         *)
(* Numbers.  The code computes in float32.  The model uses integers:       *)
(*  - ifs: coefficients and coordinates are integers (exact in float32     *)
(*    below 2^24); a threshold p[j] and a draw of np.random.random() are   *)
(*    counted in units of 1/Den, so a draw is one of 0..Den-1 and the      *)
(*    sentinel -1.0 is -Den;                                               *)
(*  - clifford_attractor: fixed point with Scale units per 1.0, sine and   *)
(*    cosine by Bhaskara's rational approximation;                         *)
(*  - generate_points: angles are multiples of 90 degrees, where cosine    *)
(*    and sine are 0, 1 or -1 (the float32 residue of cos(pi/2), about     *)
(*    6e-17, is below the tolerance the specification allows).             *)
(* Arrays keep Python's indices (functions on 0..n-1); strings are         *)
(* sequences of one-character strings, indexed from 1.                     *)
(***************************************************************************)
EXTENDS Integers, Sequences, FiniteSets

VARIABLES call, pc, err, lvl0, lvl,
          maps, cl, x, y, i, j, temp, draws,
          axiom, rules, states, prev, out, pos, it, expanded,
          alpha, theta, length, vec, rot_left, rot_right,
          points, point_index, written

vars == <<call, pc, err, lvl0, lvl,
          maps, cl, x, y, i, j, temp, draws,
          axiom, rules, states, prev, out, pos, it, expanded,
          alpha, theta, length, vec, rot_left, rot_right,
          points, point_index, written>>

ifsVars == <<maps, cl, x, y, i, j, temp, draws, lvl>>
patVars == <<axiom, rules, prev, out, it, expanded>>
ptsVars == <<alpha, theta, length, vec, rot_left, rot_right,
             points, point_index, written>>

-----------------------------------------------------------------------------
(* Bounds of the model *)

\* largest iteration count (lvl) a caller passes
MaxLvl == 2
\* resolution of thresholds and draws: a draw is u/Den with u in 0..Den-1
Den == 4
\* fixed-point units per 1.0 in clifford_attractor
Scale == 100
\* longest symbol string handed directly to generate_points
MaxSym == 3

\* iteration counts tried, negative ones included
Lvls == (-2)..MaxLvl

-----------------------------------------------------------------------------
(* ifs.py: ifs *)

\* one affine map (a, b, c, d, e, f)
AffineMaps ==
  { [a |-> 0, b |-> 0,  c |-> 0, d |-> 0, e |-> 5, f |-> 5],
    [a |-> 1, b |-> 1,  c |-> 1, d |-> 0, e |-> 1, f |-> 0],
    [a |-> 0, b |-> -1, c |-> 1, d |-> 0, e |-> 0, f |-> 1] }

\* threshold lists p, in units of 1/Den: with and without the sentinel -1.0,
\* descending and not
ThresholdLists ==
  { <<-Den>>, <<2, -Den>>, <<2, 1, -Den>>, <<1, 2, -Den>>, <<2, 1>> }

\* the parameter tuples p, a, b, c, d, e, f of one call, all of one length
MapSets ==
  UNION { { [p |-> pl,
             a |-> [k \in 1..Len(pl) |-> ms[k].a],
             b |-> [k \in 1..Len(pl) |-> ms[k].b],
             c |-> [k \in 1..Len(pl) |-> ms[k].c],
             d |-> [k \in 1..Len(pl) |-> ms[k].d],
             e |-> [k \in 1..Len(pl) |-> ms[k].e],
             f |-> [k \in 1..Len(pl) |-> ms[k].f]]
            : ms \in [1..Len(pl) -> AffineMaps] }
          : pl \in ThresholdLists }

NoMaps == [p |-> <<>>, a |-> <<>>, b |-> <<>>, c |-> <<>>,
           d |-> <<>>, e |-> <<>>, f |-> <<>>]

\* values of np.random.random(), in units of 1/Den: [0, 1)
Draws == 0..(Den - 1)

\* lvl += 1
AllocSizeSame(n) == n
AllocSize(n) == n + 1

\* np.zeros(shape=n): indices 0..n-1
Zeros(n) == [k \in 0..(n - 1) |-> 0]

\* temp > p[j]
SelectsOrEqual(u, pj) == u >= pj
Selects(u, pj) == u > pj

\* a[j] * x[i - 1] + b[j] * y[i - 1] + e[j]   (tuples are indexed from 1)
XNextNoShift(m, k, xp, yp) == m.a[k + 1] * xp + m.b[k + 1] * yp
XNext(m, k, xp, yp) == m.a[k + 1] * xp + m.b[k + 1] * yp + m.e[k + 1]

\* c[j] * x[i - 1] + d[j] * y[i - 1] + f[j]
YNext(m, k, xp, yp) == m.c[k + 1] * xp + m.d[k + 1] * yp + m.f[k + 1]

\* lvl += 1; x = np.zeros(lvl); y = np.zeros(lvl): a negative shape raises
IfsEnter ==
  /\ call = "ifs" /\ pc = "ifs_start"
  /\ lvl' = AllocSize(lvl0)
  /\ IF lvl' < 0
       THEN /\ pc' = "error" /\ err' = "ValueError"
            /\ UNCHANGED <<x, y, i>>
       ELSE /\ x' = Zeros(lvl') /\ y' = Zeros(lvl')
            /\ i' = 1
            /\ pc' = "ifs_loop"
            /\ err' = err
  /\ UNCHANGED <<call, lvl0, maps, cl, j, temp, draws, states, pos>>
  /\ UNCHANGED patVars /\ UNCHANGED ptsVars

\* for i in range(1, lvl): temp = np.random.random()
IfsDraw ==
  /\ call = "ifs" /\ pc = "ifs_loop" /\ i < lvl
  /\ \E u \in Draws : /\ temp' = u
                      /\ draws' = Append(draws, u)
  /\ j' = 0
  /\ pc' = "ifs_scan"
  /\ UNCHANGED <<call, err, lvl0, lvl, maps, cl, x, y, i, states, pos>>
  /\ UNCHANGED patVars /\ UNCHANGED ptsVars

\* for j in param_indexes: if temp > p[j]: x[i] = ...; y[i] = ...; break
IfsScan ==
  /\ call = "ifs" /\ pc = "ifs_scan"
  /\ IF j < Len(maps.p)
       THEN IF Selects(temp, maps.p[j + 1])
              THEN /\ x' = [x EXCEPT ![i] = XNext(maps, j, x[i - 1], y[i - 1])]
                   /\ y' = [y EXCEPT ![i] = YNext(maps, j, x[i - 1], y[i - 1])]
                   /\ i' = i + 1
                   /\ pc' = "ifs_loop"
                   /\ j' = j
              ELSE /\ j' = j + 1
                   /\ UNCHANGED <<x, y, i, pc>>
       ELSE /\ i' = i + 1
            /\ pc' = "ifs_loop"
            /\ UNCHANGED <<x, y, j>>
  /\ UNCHANGED <<call, err, lvl0, lvl, maps, cl, temp, draws, states, pos>>
  /\ UNCHANGED patVars /\ UNCHANGED ptsVars

\* return x, y
IfsReturn ==
  /\ call = "ifs" /\ pc = "ifs_loop" /\ i >= lvl
  /\ pc' = "done"
  /\ UNCHANGED <<call, err, lvl0, states, pos>>
  /\ UNCHANGED ifsVars /\ UNCHANGED patVars /\ UNCHANGED ptsVars

-----------------------------------------------------------------------------
(* ifs.py: clifford_attractor *)

\* pi and 2 pi in fixed point
PiFix == (355 * Scale) \div 113
TwoPiFix == 2 * PiFix

\* a product of two fixed-point numbers
MulFix(u, v) == (u * v) \div Scale

\* sine on [0, pi], Bhaskara: 16 r (pi - r) / (5 pi^2 - 4 r (pi - r))
SinHalfTurn(r) ==
  (16 * r * (PiFix - r) * Scale) \div (5 * PiFix * PiFix - 4 * r * (PiFix - r))

\* np.sin
SinFix(t) ==
  LET r == t % TwoPiFix
  IN  IF r <= PiFix THEN SinHalfTurn(r) ELSE 0 - SinHalfTurn(r - PiFix)

\* np.cos
CosFix(t) == SinFix(t + (PiFix \div 2))

\* parameter tuples (a, b, c, d) in fixed point: the two presets of __main__
\* and the degenerate a = b = 0
CliffordParams ==
  { [a |-> (17 * Scale) \div 10, b |-> (17 * Scale) \div 10,
     c |-> (6 * Scale) \div 100, d |-> (12 * Scale) \div 10],
    [a |-> (15 * Scale) \div 10, b |-> 0 - (18 * Scale) \div 10,
     c |-> (16 * Scale) \div 10, d |-> (9 * Scale) \div 10],
    [a |-> 0, b |-> 0, c |-> Scale, d |-> 0 - Scale] }

NoParams == [a |-> 0, b |-> 0, c |-> 0, d |-> 0]

\* np.sin(a * y[i - 1]) + c * np.cos(a * x[i - 1])
CliffordX(q, xp, yp) == SinFix(MulFix(q.a, yp)) + MulFix(q.c, CosFix(MulFix(q.a, xp)))

\* np.sin(b * x[i - 1]) + d * np.cos(b * y[i - 1])
CliffordY(q, xp, yp) == SinFix(MulFix(q.b, xp)) + MulFix(q.d, CosFix(MulFix(q.b, yp)))

\* lvl += 1; x = np.zeros(lvl); y = np.zeros(lvl)
CliffordEnter ==
  /\ call = "clifford_attractor" /\ pc = "cl_start"
  /\ lvl' = AllocSize(lvl0)
  /\ IF lvl' < 0
       THEN /\ pc' = "error" /\ err' = "ValueError"
            /\ UNCHANGED <<x, y, i>>
       ELSE /\ x' = Zeros(lvl') /\ y' = Zeros(lvl')
            /\ i' = 1
            /\ pc' = "cl_loop"
            /\ err' = err
  /\ UNCHANGED <<call, lvl0, maps, cl, j, temp, draws, states, pos>>
  /\ UNCHANGED patVars /\ UNCHANGED ptsVars

\* for i in range(1, lvl): x[i] = ...; y[i] = ...
CliffordStep ==
  /\ call = "clifford_attractor" /\ pc = "cl_loop" /\ i < lvl
  /\ x' = [x EXCEPT ![i] = CliffordX(cl, x[i - 1], y[i - 1])]
  /\ y' = [y EXCEPT ![i] = CliffordY(cl, x[i - 1], y[i - 1])]
  /\ i' = i + 1
  /\ UNCHANGED <<call, pc, err, lvl0, lvl, maps, cl, j, temp, draws, states, pos>>
  /\ UNCHANGED patVars /\ UNCHANGED ptsVars

\* return x, y
CliffordReturn ==
  /\ call = "clifford_attractor" /\ pc = "cl_loop" /\ i >= lvl
  /\ pc' = "done"
  /\ UNCHANGED <<call, err, lvl0, states, pos>>
  /\ UNCHANGED ifsVars /\ UNCHANGED patVars /\ UNCHANGED ptsVars

-----------------------------------------------------------------------------
(* lsys.py: generate_pattern *)

\* the L-systems tried: axiom and rewrite rules
TetraDragonRules == [s \in {"F"} |-> <<"F", "+", "F", "-", "F">>]

HeighwayDragonRules ==
  [s \in {"X", "Y"} |-> IF s = "X" THEN <<"X", "+", "Y", "F", "+">>
                                   ELSE <<"-", "F", "X", "-", "Y">>]

\* a replacement text with a symbol (Z) no rule is registered for
UnknownRules == [s \in {"A"} |-> <<"F", "Z", "-", "A">>]

NoRules == [s \in {} |-> <<>>]

SquarePath == <<"F", "+", "F", "+", "F", "+", "F">>

Systems ==
  { [axiom |-> <<"F">>, rules |-> TetraDragonRules],
    [axiom |-> <<"F", "X">>, rules |-> HeighwayDragonRules],
    [axiom |-> <<"A", "+", "Q">>, rules |-> UnknownRules],
    [axiom |-> <<"F", "-", "X", "F">>, rules |-> NoRules] }

\* for _ in range(lvl + 1)
PassCountSame(n) == n
PassCount(n) == n + 1

\* rewrite_rules.get(symbol, symbol)
ReplacementOrNothing(r, symbol) == IF symbol \in DOMAIN r THEN r[symbol] ELSE <<>>
Replacement(r, symbol) == IF symbol \in DOMAIN r THEN r[symbol] ELSE <<symbol>>

\* drawing_rules = 'F+-'
DrawingRulesWide == {"F", "+", "-", "X"}
DrawingRules == {"F", "+", "-"}

\* symbol in drawing_rules
KeepSymbolNotTurn(symbol) == symbol \in DrawingRules \ {"-"}
KeepSymbol(symbol) == symbol \in DrawingRules

\* for _ in range(lvl + 1): a pass starts, the comprehension's list is empty
PatLoop ==
  /\ call = "lindemayer" /\ pc = "pat_loop" /\ it < PassCount(lvl0)
  /\ out' = <<>>
  /\ pos' = 1
  /\ pc' = "pat_rewrite"
  /\ UNCHANGED <<call, err, lvl0, axiom, rules, states, prev, it, expanded>>
  /\ UNCHANGED ifsVars /\ UNCHANGED ptsVars

\* [rewrite_rules.get(symbol, symbol) for symbol in states]: one symbol
PatRewrite ==
  /\ call = "lindemayer" /\ pc = "pat_rewrite" /\ pos <= Len(states)
  /\ out' = out \o Replacement(rules, states[pos])
  /\ pos' = pos + 1
  /\ UNCHANGED <<call, pc, err, lvl0, axiom, rules, states, prev, it, expanded>>
  /\ UNCHANGED ifsVars /\ UNCHANGED ptsVars

\* states = ''.join([...]): the pass ends
PatJoin ==
  /\ call = "lindemayer" /\ pc = "pat_rewrite" /\ pos > Len(states)
  /\ prev' = states
  /\ states' = out
  /\ it' = it + 1
  /\ pc' = "pat_loop"
  /\ UNCHANGED <<call, err, lvl0, axiom, rules, out, pos, expanded>>
  /\ UNCHANGED ifsVars /\ UNCHANGED ptsVars

\* the loop is over; [symbol for symbol in states if ...] starts
PatFilterStart ==
  /\ call = "lindemayer" /\ pc = "pat_loop" /\ it >= PassCount(lvl0)
  /\ expanded' = states
  /\ out' = <<>>
  /\ pos' = 1
  /\ pc' = "pat_filter"
  /\ UNCHANGED <<call, err, lvl0, axiom, rules, states, prev, it>>
  /\ UNCHANGED ifsVars /\ UNCHANGED ptsVars

\* [symbol for symbol in states if symbol in drawing_rules]: one symbol
PatFilter ==
  /\ call = "lindemayer" /\ pc = "pat_filter" /\ pos <= Len(states)
  /\ out' = IF KeepSymbol(states[pos]) THEN Append(out, states[pos]) ELSE out
  /\ pos' = pos + 1
  /\ UNCHANGED <<call, pc, err, lvl0, axiom, rules, states, prev, it, expanded>>
  /\ UNCHANGED ifsVars /\ UNCHANGED ptsVars

\* states = ''.join([...]); return states; lindemayer hands it to
\* generate_points
PatReturn ==
  /\ call = "lindemayer" /\ pc = "pat_filter" /\ pos > Len(states)
  /\ states' = out
  /\ pc' = "pts_start"
  /\ UNCHANGED <<call, err, lvl0, axiom, rules, prev, out, pos, it, expanded>>
  /\ UNCHANGED ifsVars /\ UNCHANGED ptsVars

-----------------------------------------------------------------------------
(* lsys.py: calc_rot_matrix, generate_points *)

\* angles in degrees (multiples of 90) and step lengths tried
Angles == {0, 90, 180, 270}
Lengths == {1, 2}

\* np.cos(np.radians(deg)), np.sin(np.radians(deg)) at multiples of 90 degrees
CosDeg(deg) ==
  LET r == deg % 360
  IN  CASE r = 0 -> 1 [] r = 90 -> 0 [] r = 180 -> -1 [] r = 270 -> 0

SinDeg(deg) ==
  LET r == deg % 360
  IN  CASE r = 0 -> 0 [] r = 90 -> 1 [] r = 180 -> 0 [] r = 270 -> -1

\* np.array([[cos, -sin], [sin, cos]]); the angle is kept in degrees
calc_rot_matrix(angle) ==
  << <<CosDeg(angle), 0 - SinDeg(angle)>>,
     <<SinDeg(angle), CosDeg(angle)>> >>

\* rot_left = calc_rot_matrix(theta)
RotLeft(t) == calc_rot_matrix(t)

\* rot_right = calc_rot_matrix(-theta)
RotRightSwapped(t) == calc_rot_matrix(t)
RotRight(t) == calc_rot_matrix(0 - t)

\* np.dot(matrix, vec)
Dot(m, v) == <<m[1][1] * v[1] + m[1][2] * v[2], m[2][1] * v[1] + m[2][2] * v[2]>>

\* vec = [[cos(alpha)], [sin(alpha)]]; vec_len = sqrt(vec[0]^2 + vec[1]^2);
\* vec = vec / vec_len * length
InitVec(al, len) ==
  LET v == <<CosDeg(al), SinDeg(al)>>
      vec_len == CHOOSE n \in 0..2 : n * n = v[1] * v[1] + v[2] * v[2]
  IN  <<(v[1] \div vec_len) * len, (v[2] \div vec_len) * len>>

\* states.count('F')
RECURSIVE Count(_, _)
Count(s, sym) ==
  IF s = <<>> THEN 0
  ELSE (IF Head(s) = sym THEN 1 ELSE 0) + Count(Tail(s), sym)

\* points[:, point_index - 1] + vec[:, 0]
NextPointDetached(pt, v) == v
NextPoint(pt, v) == <<pt[1] + v[1], pt[2] + v[2]>>

\* symbol strings handed directly to generate_points
Symbols4 == {"F", "+", "-", "X"}
GpInputs ==
  UNION { [1..n -> Symbols4] : n \in 0..MaxSym } \cup {SquarePath}

\* the set-up: vec, rot_left, rot_right, points = np.zeros((2, count + 1)),
\* point_index = 1
GpSetup ==
  /\ call \in {"lindemayer", "generate_points"} /\ pc = "pts_start"
  /\ vec' = InitVec(alpha, length)
  /\ rot_left' = RotLeft(theta)
  /\ rot_right' = RotRight(theta)
  /\ points' = [k \in 0..Count(states, "F") |-> <<0, 0>>]
  /\ point_index' = 1
  /\ pos' = 1
  /\ pc' = "pts_loop"
  /\ UNCHANGED <<call, err, lvl0, states, alpha, theta, length, written>>
  /\ UNCHANGED ifsVars /\ UNCHANGED patVars

\* for st in states: one symbol; a column index past the array raises
GpStep ==
  /\ call \in {"lindemayer", "generate_points"} /\ pc = "pts_loop"
  /\ pos <= Len(states)
  /\ IF states[pos] = "+"
       THEN /\ vec' = Dot(rot_right, vec)
            /\ pos' = pos + 1
            /\ UNCHANGED <<points, point_index, written, pc, err>>
       ELSE IF states[pos] = "-"
         THEN /\ vec' = Dot(rot_left, vec)
              /\ pos' = pos + 1
              /\ UNCHANGED <<points, point_index, written, pc, err>>
         ELSE IF point_index \in DOMAIN points
           THEN /\ points' = [points EXCEPT ![point_index] =
                                NextPoint(points[point_index - 1], vec)]
                /\ written' = Append(written, point_index)
                /\ point_index' = point_index + 1
                /\ pos' = pos + 1
                /\ UNCHANGED <<vec, pc, err>>
           ELSE /\ pc' = "error" /\ err' = "IndexError"
                /\ UNCHANGED <<vec, points, point_index, written, pos>>
  /\ UNCHANGED <<call, lvl0, states, alpha, theta, length, rot_left, rot_right>>
  /\ UNCHANGED ifsVars /\ UNCHANGED patVars

\* return points
GpReturn ==
  /\ call \in {"lindemayer", "generate_points"} /\ pc = "pts_loop"
  /\ pos > Len(states)
  /\ pc' = "done"
  /\ UNCHANGED <<call, err, lvl0, states, pos>>
  /\ UNCHANGED ifsVars /\ UNCHANGED patVars /\ UNCHANGED ptsVars

-----------------------------------------------------------------------------
(* The calls *)

\* the locals of every function, before any of them runs
Fresh ==
  /\ err = "none"
  /\ lvl = 0
  /\ x = <<>> /\ y = <<>> /\ i = 0 /\ j = 0 /\ temp = 0 /\ draws = <<>>
  /\ prev = <<>> /\ out = <<>> /\ pos = 0 /\ it = 0 /\ expanded = <<>>
  /\ vec = <<0, 0>> /\ rot_left = <<>> /\ rot_right = <<>>
  /\ points = <<>> /\ point_index = 0 /\ written = <<>>

\* ifs(lvl, p, a, b, c, d, e, f)
InitIfs ==
  /\ call = "ifs" /\ pc = "ifs_start"
  /\ lvl0 \in Lvls
  /\ maps \in MapSets
  /\ cl = NoParams
  /\ axiom = <<>> /\ rules = NoRules /\ states = <<>>
  /\ alpha = 0 /\ theta = 0 /\ length = 0
  /\ Fresh

\* clifford_attractor(lvl, a, b, c, d)
InitClifford ==
  /\ call = "clifford_attractor" /\ pc = "cl_start"
  /\ lvl0 \in Lvls
  /\ maps = NoMaps
  /\ cl \in CliffordParams
  /\ axiom = <<>> /\ rules = NoRules /\ states = <<>>
  /\ alpha = 0 /\ theta = 0 /\ length = 0
  /\ Fresh

\* lindemayer(lvl, length, init_angle, angle, init_state, **rewrite_rules)
InitLindemayer ==
  /\ call = "lindemayer" /\ pc = "pat_loop"
  /\ lvl0 \in Lvls
  /\ maps = NoMaps
  /\ cl = NoParams
  /\ \E sys \in Systems : /\ axiom = sys.axiom
                          /\ rules = sys.rules
                          /\ states = sys.axiom
  /\ alpha \in Angles /\ theta \in Angles /\ length \in Lengths
  /\ Fresh

\* generate_points(alpha, theta, length, states)
InitPoints ==
  /\ call = "generate_points" /\ pc = "pts_start"
  /\ lvl0 = 0
  /\ maps = NoMaps
  /\ cl = NoParams
  /\ axiom = <<>> /\ rules = NoRules
  /\ states \in GpInputs
  /\ alpha \in Angles /\ theta \in Angles /\ length \in Lengths
  /\ Fresh

Init == InitIfs \/ InitClifford \/ InitLindemayer \/ InitPoints

Next ==
  \/ IfsEnter \/ IfsDraw \/ IfsScan \/ IfsReturn
  \/ CliffordEnter \/ CliffordStep \/ CliffordReturn
  \/ PatLoop \/ PatRewrite \/ PatJoin \/ PatFilterStart \/ PatFilter \/ PatReturn
  \/ GpSetup \/ GpStep \/ GpReturn

Spec == Init /\ [][Next]_vars

-----------------------------------------------------------------------------
(* Helpers of the properties *)

\* a function returned to its caller
IfsReturned == call = "ifs" /\ pc = "done"
CliffordReturned == call = "clifford_attractor" /\ pc = "done"
PatternReturned == call = "lindemayer" /\ pc \in {"pts_start", "pts_loop", "done", "error"}
PointsReturned == call \in {"lindemayer", "generate_points"} /\ pc = "done"

\* the arrays x and y exist
Allocated ==
  /\ call \in {"ifs", "clifford_attractor"}
  /\ pc \in {"ifs_loop", "ifs_scan", "cl_loop", "done"}

\* the last threshold is below every draw
HasSentinel == maps.p # <<>> /\ maps.p[Len(maps.p)] < 0

\* the first map, in list order, whose threshold is strictly below the draw u
FirstBelow(u) ==
  CHOOSE k \in 1..Len(maps.p) :
    /\ maps.p[k] < u
    /\ \A m \in 1..(k - 1) : ~(maps.p[m] < u)

RECURSIVE Pow(_, _)
Pow(b, n) == IF n = 0 THEN 1 ELSE b * Pow(b, n - 1)

InDrawingAlphabet(s) == s \in {"F", "+", "-"}

\* dst is the concatenation, symbol by symbol of src, of the rule's replacement
\* or of the symbol itself
IsExpansion(src, dst) ==
  LET R(s) == IF s \in DOMAIN rules THEN rules[s] ELSE <<s>>
      Off[k \in 0..Len(src)] == IF k = 0 THEN 0 ELSE Off[k - 1] + Len(R(src[k]))
  IN  /\ Len(dst) = Off[Len(src)]
      /\ \A k \in 1..Len(src) : SubSeq(dst, Off[k - 1] + 1, Off[k]) = R(src[k])

\* the symbols of a string
Range(s) == { s[k] : k \in 1..Len(s) }

\* the position in states of the k-th F
FPos(k) ==
  CHOOSE q \in 1..Len(states) :
    states[q] = "F" /\ Count(SubSeq(states, 1, q), "F") = k

\* the heading when the k-th F is read: the initial heading turned once
\* counter-clockwise per '-' and once clockwise per '+' read before it
HeadingAt(k) ==
  LET before == SubSeq(states, 1, FPos(k))
      deg == alpha + theta * (Count(before, "-") - Count(before, "+"))
  IN  <<length * CosDeg(deg), length * SinDeg(deg)>>

-----------------------------------------------------------------------------
(* Properties *)

\* C1: for every iterationCount >= 0 and every map set (every a, b, c, d),
\* the arrays x and y of ifs and of clifford_attractor both have
\* iterationCount + 1 entries and point 0 is (0, 0) from allocation to
\* return; no error is raised; for iterationCount = 0 the result is the
\* single point at the origin.
C1_LengthAndOrigin ==
  (call \in {"ifs", "clifford_attractor"} /\ lvl0 >= 0) =>
     /\ pc # "error"
     /\ Allocated =>
          /\ DOMAIN x = 0..lvl0 /\ DOMAIN y = 0..lvl0
          /\ Cardinality(DOMAIN x) = lvl0 + 1
          /\ x[0] = 0 /\ y[0] = 0

C1_Witness ==
  /\ IfsReturned /\ lvl0 = MaxLvl
  /\ x[1] # 0 /\ x[lvl0] # 0
  /\ Cardinality(DOMAIN y) = MaxLvl + 1

\* C2: with a sentinel threshold below every draw, every iteration i applies
\* exactly one map, the first in list order whose threshold is strictly below
\* the draw u_i, to point i-1: x[i] = a*x[i-1] + b*y[i-1] + e and
\* y[i] = c*x[i-1] + d*y[i-1] + f; the scan never goes past that map.
C2_FirstMatchWins ==
  (call = "ifs" /\ HasSentinel) =>
     /\ pc \in {"ifs_loop", "done"} =>
          /\ Len(draws) = i - 1
          /\ \A n \in 1..(i - 1) :
               LET k == FirstBelow(draws[n])
               IN  /\ x[n] = maps.a[k] * x[n - 1] + maps.b[k] * y[n - 1] + maps.e[k]
                   /\ y[n] = maps.c[k] * x[n - 1] + maps.d[k] * y[n - 1] + maps.f[k]
     /\ pc = "ifs_scan" => j + 1 <= FirstBelow(temp)

C2_Witness ==
  /\ IfsReturned /\ lvl0 >= 1
  /\ maps.p = <<2, 1, -Den>> /\ maps.e = <<1, 5, 0>>
  /\ draws[1] = 3
  /\ x[1] = 1 /\ y[1] = 0

\* C3: a single map (threshold -1, a = b = c = d = 0, e = f = 5) and any
\* iterationCount >= 1 gives point 0 = (0, 0) and every later point (5, 5),
\* whatever the draws.
C3_ConstantMap ==
  (/\ IfsReturned /\ lvl0 >= 1
   /\ maps = [p |-> <<-Den>>, a |-> <<0>>, b |-> <<0>>, c |-> <<0>>,
              d |-> <<0>>, e |-> <<5>>, f |-> <<5>>]) =>
     /\ x[0] = 0 /\ y[0] = 0
     /\ \A n \in 1..lvl0 : x[n] = 5 /\ y[n] = 5

C3_Witness ==
  /\ IfsReturned /\ lvl0 = MaxLvl
  /\ maps.p = <<-Den>> /\ maps.a = <<0>> /\ maps.e = <<5>> /\ maps.f = <<5>>
  /\ draws[1] # draws[2]
  /\ x[lvl0] = 5 /\ y[lvl0] = 5

C5_SimultaneousPass ==
  call = "lindemayer" =>
     /\ pc = "pat_rewrite" => IsExpansion(SubSeq(states, 1, pos - 1), out)
     /\ (pc = "pat_loop" /\ it >= 1) =>
          /\ IsExpansion(prev, states)
          /\ \A s \in Range(prev) \ DOMAIN rules :
               Count(states, s) >= Count(prev, s)
          /\ Range(prev) \cap DOMAIN rules = {} => states = prev

C5_Witness ==
  /\ call = "lindemayer" /\ pc = "pat_loop" /\ it = 2
  /\ rules = UnknownRules
  /\ Count(prev, "Z") = 1 /\ Count(states, "Z") = 2
  /\ Count(states, "Q") = 1

\* C6: the string generate_pattern returns holds only symbols of the drawing
\* alphabet {F, +, -} and is exactly the subsequence of those symbols of the
\* fully expanded string, in their order.
C6_FilterKeepsDrawable ==
  PatternReturned =>
     /\ \A k \in 1..Len(states) : states[k] \in {"F", "+", "-"}
     /\ states = SelectSeq(expanded, InDrawingAlphabet)

C6_Witness ==
  /\ call = "lindemayer" /\ pc = "pts_start" /\ lvl0 = 1
  /\ rules = HeighwayDragonRules
  /\ Len(states) < Len(expanded)
  /\ Count(states, "-") >= 2 /\ Count(states, "+") >= 2

\* C7: for a symbol string over {F, +, -} generate_points returns
\* count('F') + 1 points, point 0 is the origin, and the k-th point is the
\* (k-1)-th plus the heading in force when the k-th F is read; '+' and '-'
\* add no point.
C7_ConnectedPolyline ==
  (PointsReturned /\ \A q \in 1..Len(states) : states[q] \in {"F", "+", "-"}) =>
     /\ DOMAIN points = 0..Count(states, "F")
     /\ Cardinality(DOMAIN points) = Count(states, "F") + 1
     /\ Len(written) = Count(states, "F")
     /\ points[0] = <<0, 0>>
     /\ \A k \in 1..Count(states, "F") :
          /\ points[k][1] = points[k - 1][1] + HeadingAt(k)[1]
          /\ points[k][2] = points[k - 1][2] + HeadingAt(k)[2]

C7_Witness ==
  /\ call = "generate_points" /\ pc = "done"
  /\ states = <<"F", "-", "F">>
  /\ alpha = 0 /\ theta = 90 /\ length = 2
  /\ points[1] = <<2, 0>> /\ points[2] = <<2, 2>>

\* C8: '+' turns the heading clockwise by the turn angle (the matrix of the
\* negative angle) and '-' counter-clockwise; F+F+F+F with initial heading 0,
\* turn angle 90 and step length 1 gives (0,0), (1,0), (1,-1), (0,-1), (0,0).
C8_PlusIsClockwise ==
  (call \in {"lindemayer", "generate_points"} /\ pc \in {"pts_loop", "done"}) =>
     /\ rot_right = << <<CosDeg(theta), SinDeg(theta)>>,
                       <<0 - SinDeg(theta), CosDeg(theta)>> >>
     /\ rot_left = << <<CosDeg(theta), 0 - SinDeg(theta)>>,
                      <<SinDeg(theta), CosDeg(theta)>> >>
     /\ (/\ pc = "done" /\ states = SquarePath
         /\ alpha = 0 /\ theta = 90 /\ length = 1) =>
          /\ DOMAIN points = 0..4
          /\ points[0] = <<0, 0>>
          /\ points[1] = <<1, 0>>
          /\ points[2] = <<1, -1>>
          /\ points[3] = <<0, -1>>
          /\ points[4] = <<0, 0>>

C8_Witness ==
  /\ call = "generate_points" /\ pc = "done"
  /\ states = SquarePath
  /\ alpha = 0 /\ theta = 90 /\ length = 1
  /\ points[2] = <<1, -1>>

\* C9: every generator called with a negative iteration count fails and
\* returns no point sequence or string, while an iteration count of zero is
\* accepted and gives the origin-only output.
C9_NegativeCountRejected ==
  /\ lvl0 < 0 => ~(IfsReturned \/ CliffordReturned \/ PatternReturned)
  /\ (lvl0 = 0 /\ call \in {"ifs", "clifford_attractor"}) =>
       /\ pc # "error"
       /\ pc = "done" => (DOMAIN x = {0} /\ x[0] = 0 /\ DOMAIN y = {0} /\ y[0] = 0)

\* C10: in the pipeline generate_pattern -> generate_points the write index
\* is in 1..count('F') at each write, no write falls outside the array,
\* every column 1..count('F') is written exactly once, and the index ends
\* at count('F') + 1.
C10_PipelineIndexInRange ==
  call = "lindemayer" =>
     /\ err # "IndexError"
     /\ pc \in {"pts_loop", "done"} =>
          /\ DOMAIN points = 0..Count(states, "F")
          /\ \A k \in 1..Len(written) : written[k] = k
     /\ (pc = "pts_loop" /\ pos <= Len(states) /\ states[pos] \notin {"+", "-"}) =>
          point_index \in 1..Count(states, "F")
     /\ pc = "done" =>
          /\ point_index = Count(states, "F") + 1
          /\ Len(written) = Count(states, "F")

C10_Witness ==
  /\ call = "lindemayer" /\ pc = "done" /\ lvl0 = 1
  /\ rules = HeighwayDragonRules
  /\ Count(expanded, "X") >= 1
  /\ Count(states, "F") >= 3
  /\ point_index = Count(states, "F") + 1

====
